---- MODULE Spec2Model ----
(***************************************************************************)
(* pngme: PNG chunk types, chunks and the chunk container, with the        *)
(* encode / remove commands that rewrite a file.                           *)
(*                                                                         *)
(* Numbers.  A u32 or usize value n is the pair <<n \div 2^16, n % 2^16>>, *)
(* because 2^31 and above are not numbers of the model checker.  A u32 has *)
(* a first component below 2^16.                                           *)
(*                                                                         *)
(* Byte vectors.  A Vec<u8> / &[u8] is [len |-> n, nz |-> S], S the set of *)
(* pairs <<i, b>> with byte b # 0 at index i (indices from 0); every other *)
(* index below len holds 0.  The form is canonical: two vectors are equal  *)
(* iff the records are.                                                    *)
(*                                                                         *)
(* Local names.  Only({e(x) : x \in {v}}) is e(v): it names the value v as *)
(* x within e, as LET x == v IN e(x) does.                                 *)
(***************************************************************************)
EXTENDS Integers, Sequences, FiniteSets, TLC

VARIABLES
    ty,         \* chunk types: the last constructor call, its input and its Result
    ck,         \* chunks: the chunk built, the buffer derived from it, the parse Result
    file,       \* commands: the bytes of the PNG file on disk
    file0,      \* commands: the bytes of the file before the first command
    last,       \* commands: what the last command did
    nops        \* commands: how many commands have run

vars == <<ty, ck, file, file0, last, nops>>

----------------------------------------------------------------------------
(* u32 / usize arithmetic *)

Only(S) == CHOOSE x \in S : TRUE

Half == 256 * 256

N(n) == <<n \div Half, n % Half>>

Add(a, b) == <<a[1] + b[1] + ((a[2] + b[2]) \div Half), (a[2] + b[2]) % Half>>

Lt(a, b) == a[1] < b[1] \/ (a[1] = b[1] /\ a[2] < b[2])

Le(a, b) == a = b \/ Lt(a, b)

\* a - b, for b <= a
Sub(a, b) == IF a[2] >= b[2] THEN <<a[1] - b[1], a[2] - b[2]>>
             ELSE <<a[1] - b[1] - 1, a[2] - b[2] + Half>>

\* `x as u32`: the low 32 bits
AsU32(a) == <<a[1] % Half, a[2]>>

\* bit i of the byte a
Bit(a, i) == (a \div (2 ^ i)) % 2

\* a ^ b on bytes
XorBits(a, b) ==
      ((Bit(a, 0) + Bit(b, 0)) % 2)       + ((Bit(a, 1) + Bit(b, 1)) % 2) * 2
    + ((Bit(a, 2) + Bit(b, 2)) % 2) * 4   + ((Bit(a, 3) + Bit(b, 3)) % 2) * 8
    + ((Bit(a, 4) + Bit(b, 4)) % 2) * 16  + ((Bit(a, 5) + Bit(b, 5)) % 2) * 32
    + ((Bit(a, 6) + Bit(b, 6)) % 2) * 64  + ((Bit(a, 7) + Bit(b, 7)) % 2) * 128

\* the same, tabulated once: XorTable[a + 1][b + 1] is a ^ b
XorTable == SubSeq([i \in 1..256 |->
                       SubSeq([j \in 1..256 |-> XorBits(i - 1, j - 1)], 1, 256)],
                   1, 256)

Xor8(a, b) == XorTable[a + 1][b + 1]

Xor16(a, b) == Xor8(a \div 256, b \div 256) * 256 + Xor8(a % 256, b % 256)

\* a ^ b on u32
Xor(a, b) == <<Xor16(a[1], b[1]), Xor16(a[2], b[2])>>

\* a >> 1 on u32 and usize; a >> 8 and a << 8 on u32
Shr1(a) == <<a[1] \div 2, (a[2] \div 2) + (a[1] % 2) * 32768>>

Shr8(a) == <<a[1] \div 256, (a[2] \div 256) + (a[1] % 256) * 256>>

Shl8(a) == <<((a[1] % 256) * 256) + (a[2] \div 256), (a[2] % 256) * 256>>

\* a & b on bytes
BitAnd(a, b) ==
      (Bit(a, 0) * Bit(b, 0))       + (Bit(a, 1) * Bit(b, 1)) * 2
    + (Bit(a, 2) * Bit(b, 2)) * 4   + (Bit(a, 3) * Bit(b, 3)) * 8
    + (Bit(a, 4) * Bit(b, 4)) * 16  + (Bit(a, 5) * Bit(b, 5)) * 32
    + (Bit(a, 6) * Bit(b, 6)) * 64  + (Bit(a, 7) * Bit(b, 7)) * 128

to_be_bytes(u) == <<u[1] \div 256, u[1] % 256, u[2] \div 256, u[2] % 256>>

from_be_bytes(b) == <<b[1] * 256 + b[2], b[3] * 256 + b[4]>>

----------------------------------------------------------------------------
(* byte vectors *)

Empty == [len |-> N(0), nz |-> {}]

Vec(s) == [len |-> N(Len(s)),
           nz  |-> {<<N(i - 1), s[i]>> : i \in {j \in 1..Len(s) : s[j] # 0}}]

\* vec![0; n]
Zeros(n) == [len |-> n, nz |-> {}]

At(v, i) == IF \E p \in v.nz : p[1] = i THEN (CHOOSE p \in v.nz : p[1] = i)[2] ELSE 0

Concat(a, b) == [len |-> Add(a.len, b.len),
                 nz  |-> a.nz \cup {<<Add(p[1], a.len), p[2]>> : p \in b.nz}]

\* the k bytes from index `from` on, for from + k <= v.len
Slice(v, from, k) ==
    [len |-> k,
     nz  |-> {<<Sub(p[1], from), p[2]>> :
                 p \in {q \in v.nz : Le(from, q[1]) /\ Lt(q[1], Add(from, k))}}]

\* a short vector as the sequence of its bytes
Bytes(v) == [i \in 1..v.len[2] |-> At(v, N(i - 1))]

----------------------------------------------------------------------------
(* crc::crc32::checksum_ieee: reflected CRC-32, polynomial 0xEDB88320,     *)
(* initial value and final xor 0xFFFFFFFF                                  *)

POLY == <<60856, 33568>>

AllOnes == <<65535, 65535>>

\* the polynomials 0 and 1: bit 31 of a u32 is x^0
Zero == <<0, 0>>

One == <<32768, 0>>

\* one bit of input 0: the register times x, modulo the polynomial
Step(s) == IF s[2] % 2 = 1 THEN Xor(Shr1(s), POLY) ELSE Shr1(s)

\* k bits of input 0
RECURSIVE Steps(_, _)
Steps(s, k) == IF k = 0 THEN s ELSE Steps(Step(s), k - 1)

\* the byte-wise table of the algorithm: CrcTable[i + 1] for the byte i
CrcTable == SubSeq([i \in 1..256 |-> Steps(<<0, i - 1>>, 8)], 1, 256)

\* the register after one more byte b
ByteStep(s, b) == Xor(CrcTable[Xor8(s[2] % 256, b) + 1], Shr8(s))

\* st[2] plus the product of the low 8 - i coefficients of the byte a (bit 7
\* is x^0) and the polynomial st[1], which is b x^i
RECURSIVE ByteMul(_, _, _)
ByteMul(a, st, i) ==
    IF i = 8 \/ st[1] = Zero THEN st[2]
    ELSE ByteMul(a, <<Step(st[1]),
                      IF Bit(a, 7 - i) = 1 THEN Xor(st[2], st[1]) ELSE st[2]>>, i + 1)

\* st[3] plus the product of the polynomials st[1] and st[2] modulo the
\* polynomial; st[1] is taken from its top byte down
RECURSIVE MulSum(_)
MulSum(st) ==
    IF st[1] = Zero \/ st[2] = Zero THEN st[3]
    ELSE MulSum(<<Shl8(st[1]), ByteStep(st[2], 0),
                  ByteMul(st[1][1] \div 256, <<st[2], st[3]>>, 0)>>)

\* the product of the polynomials a and b modulo the polynomial
MulMod(a, b) ==
    IF a = Zero \/ b = Zero THEN Zero
    ELSE IF a = One THEN b
    ELSE IF b = One THEN a
    ELSE MulSum(<<a, b, Zero>>)

\* a length has 5 bytes of 8 bits here
LenBytes == 5

\* t with the square of its last entry appended, up to n entries
RECURSIVE Squares(_, _)
Squares(t, n) == IF Len(t) = n THEN t
                 ELSE Squares(Append(t, MulMod(t[Len(t)], t[Len(t)])), n)

\* x^(8 * 2^k) modulo the polynomial for k < 8 * LenBytes, by squaring, the
\* 8 entries of a byte of the length at a time
RECURSIVE PowTable(_)
PowTable(t) == IF Len(t) = 8 * LenBytes THEN t
               ELSE PowTable(Squares(t, 8 * ((Len(t) \div 8) + 1)))

X2N == PowTable(<<Steps(One, 8)>>)

\* x^(8 * (b \div 2^k) * 2^k * 256^j) for the byte b
RECURSIVE BytePow(_, _, _)
BytePow(b, j, k) ==
    IF k = 8 THEN One
    ELSE MulMod(IF Bit(b, k) = 1 THEN X2N[8 * j + k + 1] ELSE One, BytePow(b, j, k + 1))

\* ZeroTable[j + 1][b + 1] is x^(8 * b * 256^j)
ZeroTable == SubSeq([j \in 1..LenBytes |->
                        SubSeq([b \in 1..256 |-> BytePow(b - 1, j - 1, 0)], 1, 256)],
                    1, LenBytes)

\* the register s after more bytes of value 0, as many as the bytes of the
\* number n from byte j up say
RECURSIVE ZeroFrom(_, _, _)
ZeroFrom(s, n, j) ==
    IF j = LenBytes \/ s = Zero THEN s
    ELSE ZeroFrom(MulMod(s, ZeroTable[j + 1][(n[2] % 256) + 1]),
                  <<n[1] \div 256, (n[2] \div 256) + (n[1] % 256) * 256>>, j + 1)

\* the register after n more bytes of value 0: times x^(8 n)
ZeroBytes(s, n) == ZeroFrom(s, n, 0)

\* the first index from pos on that holds a byte other than 0, with the byte
NextNz(v, pos) ==
    Only({q \in v.nz : /\ Le(pos, q[1])
                       /\ \A r \in v.nz : Le(pos, r[1]) => Le(q[1], r[1])})

\* the register st[1] after the bytes of v from index st[2] on
RECURSIVE Feed(_, _)
Feed(st, v) ==
    IF \A p \in v.nz : Lt(p[1], st[2]) THEN ZeroBytes(st[1], Sub(v.len, st[2]))
    ELSE Feed(Only({<<ByteStep(ZeroBytes(st[1], Sub(p[1], st[2])), p[2]),
                      Add(p[1], N(1))>> : p \in {NextNz(v, st[2])}}), v)

checksum_ieee(v) == Only({Xor(s, AllOnes) : s \in {Feed(<<AllOnes, N(0)>>, v)}})

----------------------------------------------------------------------------
(* Result<T> *)

Ok(v) == [ok |-> TRUE, val |-> v, err |-> "none"]

Err(e) == [ok |-> FALSE, val |-> "none", err |-> e]

----------------------------------------------------------------------------
(* chunk_type.rs.  A ChunkType is [bytes |-> the 4 bytes]; a [u8; 4] is a   *)
(* sequence of 4 bytes and a &str is the sequence of its UTF-8 bytes.       *)

\* is_ascii_uppercase without 'Z': the variant C4 tells from the code
is_ascii_uppercase_noZ(b) == 65 <= b /\ b < 90

is_ascii_uppercase(b) == 65 <= b /\ b <= 90

is_ascii_lowercase(b) == 97 <= b /\ b <= 122

is_valid_bytes(bytes) ==
    \A i \in 1..4 : is_ascii_uppercase(bytes[i]) \/ is_ascii_lowercase(bytes[i])

\* bytes[0] & (0b1 << 5) == 0, and so on: Rust's bytes[k] is bytes[k + 1] here
is_critical(t) == BitAnd(t.bytes[1], 2 ^ 5) = 0

is_public(t) == BitAnd(t.bytes[2], 2 ^ 5) = 0

is_reserved_bit_valid(t) == BitAnd(t.bytes[3], 2 ^ 5) = 0

\* is_safe_to_copy with the sense of the bit inverted: the variant C5 tells
\* from the code
is_safe_to_copy_inverted(t) == BitAnd(t.bytes[4], 2 ^ 5) = 0

is_safe_to_copy(t) == BitAnd(t.bytes[4], 2 ^ 5) # 0

is_valid(t) == is_reserved_bit_valid(t)

\* ChunkType::try_from with is_valid() enforced as well: the variant C10 tells
\* from the code
ChunkType_try_from_valid(bytes) ==
    IF ~is_valid_bytes(bytes) \/ ~is_valid([bytes |-> bytes]) THEN Err("invalid bytes")
    ELSE Ok([bytes |-> bytes])

\* impl TryFrom<[u8; 4]> for ChunkType
ChunkType_try_from(bytes) ==
    IF ~is_valid_bytes(bytes) THEN Err("invalid bytes")
    ELSE Ok([bytes |-> bytes])

\* impl FromStr for ChunkType
from_str(str) ==
    IF Len(str) # 4 THEN Err("expected 4 bytes")
    ELSE ChunkType_try_from(SubSeq(str, 1, 4))

\* the five predicates of a type code
Predicates(t) == [is_valid              |-> is_valid(t),
                  is_critical           |-> is_critical(t),
                  is_public             |-> is_public(t),
                  is_reserved_bit_valid |-> is_reserved_bit_valid(t),
                  is_safe_to_copy       |-> is_safe_to_copy(t)]

\* Bytes tried in type codes: the ends of A-Z and a-z, their neighbours, a
\* digit, and the extremes of u8.
TypeBytes == {0, 49, 64, 65, 90, 91, 96, 97, 122, 123, 255}

\* Characters tried in strings, each as its UTF-8 bytes: letters, a digit
\* and the two-byte e-acute.
StrChars == {<<82>>, <<117>>, <<83>>, <<116>>, <<49>>, <<195, 169>>}

\* the longest string tried, in characters
MaxStrChars == 5

RECURSIVE Strings(_)
Strings(n) == IF n = 0 THEN {<<>>}
              ELSE {<<>>} \cup {s \o c : s \in Strings(n - 1), c \in StrChars}

\* the input of the constructor call to come
TyInit ==
    \/ \E bytes \in [1..4 -> TypeBytes] :
          ty = [op |-> "bytes", input |-> bytes, r |-> Err("none"), flags |-> "none"]
    \/ \E str \in Strings(MaxStrChars) :
          ty = [op |-> "str", input |-> str, r |-> Err("none"), flags |-> "none"]

TyIdle == ty = [op |-> "idle", input |-> <<>>, r |-> Err("none"), flags |-> "none"]

----------------------------------------------------------------------------
(* chunk.rs *)

\* MAXIMUM_LENGTH one too large: the variant C3 tells from the code
MAXIMUM_LENGTH_plus1 == <<32768, 0>>

\* (1 << 31) - 1
MAXIMUM_LENGTH == Sub(<<32768, 0>>, N(1))

\* Chunk::new
Chunk_new(chunk_type, chunk_data) ==
    Only({[length     |-> AsU32(d.len),
           chunk_type |-> t,
           chunk_data |-> d,
           crc        |-> checksum_ieee(Concat(Vec(t.bytes), d))] :
             t \in {chunk_type}, d \in {chunk_data}})

\* as_bytes with the crc written before the data: the variant C12 tells from
\* the code
as_bytes_crc_first(c) ==
    Concat(Concat(Concat(Vec(to_be_bytes(c.length)), Vec(c.chunk_type.bytes)),
                  Vec(to_be_bytes(c.crc))),
           c.chunk_data)

\* Chunk::as_bytes
as_bytes(c) ==
    Only({Concat(Concat(Concat(Vec(to_be_bytes(x.length)), Vec(x.chunk_type.bytes)),
                        x.chunk_data),
                 Vec(to_be_bytes(x.crc))) : x \in {c}})

\* Read::read in place of read_exact: the bytes there are, then the zeros
\* the buffer was initialized with: the variant C13 tells from the code
read_exact_partial(bytes, pos, k) ==
    Only({Ok(Concat(Slice(bytes, pos, have), Zeros(Sub(k, have)))) :
             have \in {IF Le(bytes.len, pos) THEN N(0)
                       ELSE IF Lt(Sub(bytes.len, pos), k) THEN Sub(bytes.len, pos)
                       ELSE k}})

\* Read::read_exact on the reader at index pos: the k bytes, or UnexpectedEof
read_exact(bytes, pos, k) ==
    Only({IF Lt(Sub(buf.len, at), n) THEN Err("UnexpectedEof")
          ELSE Ok(Slice(buf, at, n)) : buf \in {bytes}, at \in {pos}, n \in {k}})

\* the comparison on the low 16 bits only: the variant C2 tells from the code
ChecksumDiffers_low16(expected_crc, crc) == expected_crc[2] # crc[2]

\* expected_crc != crc
ChecksumDiffers(expected_crc, crc) == expected_crc # crc

\* the tail of try_from with the crc taken from the last four bytes of the
\* input: the variant C15 tells from the code
ReadPayload_crc_at_end(bytes, length, chunk_type) ==
    Only({IF ~data.ok THEN Err(data.err)
          ELSE Only({IF ~crcb.ok THEN Err(crcb.err)
                     ELSE Only({IF ChecksumDiffers(expected_crc, crc)
                                THEN Err("ChecksumMismatch")
                                ELSE Ok([length     |-> length,
                                         chunk_type |-> chunk_type,
                                         chunk_data |-> data.val,
                                         crc        |-> crc]) :
                                  crc \in {from_be_bytes(Bytes(crcb.val))},
                                  expected_crc \in
                                      {checksum_ieee(Concat(Vec(chunk_type.bytes),
                                                            data.val))}}) :
                       crcb \in {IF Lt(bytes.len, Add(N(12), length))
                                 THEN Err("UnexpectedEof")
                                 ELSE read_exact(bytes, Sub(bytes.len, N(4)), N(4))}}) :
             data \in {read_exact(bytes, N(8), length)}})

\* the tail of Chunk::try_from, after the type code: payload, crc, checksum
ReadPayload(bytes, length, chunk_type) ==
    Only({IF ~data.ok THEN Err(data.err)
          ELSE IF data.val.len # length THEN Err("WrongLength")
          ELSE Only({IF ~crcb.ok THEN Err(crcb.err)
                     ELSE Only({IF ChecksumDiffers(expected_crc, crc)
                                THEN Err("ChecksumMismatch")
                                ELSE Ok([length     |-> length,
                                         chunk_type |-> chunk_type,
                                         chunk_data |-> data.val,
                                         crc        |-> crc]) :
                                  crc \in {from_be_bytes(Bytes(crcb.val))},
                                  expected_crc \in
                                      {checksum_ieee(Concat(Vec(chunk_type.bytes),
                                                            data.val))}}) :
                       crcb \in {read_exact(bytes, Add(N(8), length), N(4))}}) :
             data \in {read_exact(bytes, N(8), length)}})

\* impl TryFrom<&[u8]> for Chunk
Chunk_try_from(bytes) ==
    Only({IF ~lenb.ok THEN Err(lenb.err)
          ELSE Only({IF Lt(MAXIMUM_LENGTH, length) THEN Err("LengthTooLong")
                     ELSE Only({IF ~typeb.ok THEN Err(typeb.err)
                                ELSE Only({IF ~chunk_type.ok THEN Err(chunk_type.err)
                                           ELSE ReadPayload(buf, length, chunk_type.val) :
                                             chunk_type \in
                                                 {ChunkType_try_from(Bytes(typeb.val))}}) :
                                  typeb \in {read_exact(buf, N(4), N(4))}}) :
                       length \in {from_be_bytes(Bytes(lenb.val))}}) :
             buf \in {bytes}, lenb \in {read_exact(bytes, N(0), N(4))}})

----------------------------------------------------------------------------
(* png.rs: the container, [chunks |-> the sequence of its Chunks]           *)

\* the 8-byte signature
STANDARD_HEADER == <<137, 80, 78, 71, 13, 10, 26, 10>>

\* the type code of the terminal marker
IEND == [bytes |-> <<73, 69, 78, 68>>]

\* one chunk more: st is [pos |-> the cursor, chunks |-> the chunks before
\* it, err |-> "none" or the error of a chunk]
ParseOne(bytes, st) ==
    Only({IF ~r.ok THEN [st EXCEPT !.err = r.err]
          ELSE [pos    |-> Add(st.pos, Add(N(12), r.val.length)),
                chunks |-> Append(st.chunks, r.val),
                err    |-> "none"] :
             r \in {Chunk_try_from(Slice(bytes, st.pos, Sub(bytes.len, st.pos)))}})

\* the chunks of bytes from the cursor on, after the chunks before it
RECURSIVE ParseChunks(_, _)
ParseChunks(bytes, st) ==
    IF st.err # "none" THEN Err(st.err)
    ELSE IF st.pos = bytes.len THEN Ok([chunks |-> st.chunks])
    ELSE ParseChunks(bytes, ParseOne(bytes, st))

\* impl TryFrom<&[u8]> for Png
Png_try_from(bytes) ==
    Only({IF Lt(buf.len, N(8)) THEN Err("SignatureMismatch")
          ELSE IF Bytes(Slice(buf, N(0), N(8))) # STANDARD_HEADER
               THEN Err("SignatureMismatch")
          ELSE ParseChunks(buf, [pos |-> N(8), chunks |-> <<>>, err |-> "none"]) :
             buf \in {bytes}})

\* the indices of the chunks of type t
IndicesOf(chunks, t) == {i \in 1..Len(chunks) : chunks[i].chunk_type = t}

Min(S) == CHOOSE i \in S : \A j \in S : i <= j

\* append_chunk that always pushes at the end: the variant C8 tells from the
\* operation
append_chunk_push(png, chunk) == [chunks |-> Append(png.chunks, chunk)]

\* Png::append_chunk: before the terminal marker, or at the end
append_chunk(png, chunk) ==
    Only({IF at = {} THEN [chunks |-> Append(cs, chunk)]
          ELSE [chunks |-> SubSeq(cs, 1, Min(at) - 1) \o <<chunk>>
                           \o SubSeq(cs, Min(at), Len(cs))] :
             cs \in {png.chunks}, at \in {IndicesOf(png.chunks, IEND)}})

\* Png::chunk_by_type: Some(the first chunk of the type) or None
chunk_by_type(png, t) ==
    Only({IF at = {} THEN Err("None") ELSE Ok(cs[Min(at)]) :
             cs \in {png.chunks}, at \in {IndicesOf(png.chunks, t)}})

\* remove_chunk that removes the last match: the variant C9 tells from the
\* operation
remove_chunk_last(png, t) ==
    Only({IF at = {} THEN [png |-> [chunks |-> cs], r |-> Err("ChunkNotFound")]
          ELSE Only({[png |-> [chunks |-> SubSeq(cs, 1, m - 1) \o SubSeq(cs, m + 1, Len(cs))],
                      r   |-> Ok(cs[m])] :
                       m \in {i \in at : \A j \in at : j <= i}}) :
             cs \in {png.chunks}, at \in {IndicesOf(png.chunks, t)}})

\* Png::remove_chunk: [png |-> the container afterwards, r |-> the Result]
remove_chunk(png, t) ==
    Only({IF at = {} THEN [png |-> [chunks |-> cs], r |-> Err("ChunkNotFound")]
          ELSE [png |-> [chunks |-> SubSeq(cs, 1, Min(at) - 1)
                                    \o SubSeq(cs, Min(at) + 1, Len(cs))],
                r   |-> Ok(cs[Min(at)])] :
             cs \in {png.chunks}, at \in {IndicesOf(png.chunks, t)}})

\* the bytes st[2], then those of the chunks from the st[1]-th on
RECURSIVE ChunksBytes(_, _)
ChunksBytes(chunks, st) ==
    IF st[1] > Len(chunks) THEN st[2]
    ELSE ChunksBytes(chunks, <<st[1] + 1, Concat(st[2], as_bytes(chunks[st[1]]))>>)

\* Png::as_bytes
Png_as_bytes(png) == ChunksBytes(png.chunks, <<1, Vec(STANDARD_HEADER)>>)

----------------------------------------------------------------------------
(* commands.rs, on one file: fs::read and fs::write of the path given.     *)
(* run() returns the command's Result; `ret` is that Result.               *)

\* what a command that stops at Png::try_from leaves behind
NotPng(bytes, parsed) ==
    [ret |-> Err(parsed.err), wrote |-> FALSE, file |-> bytes,
     before |-> parsed, png |-> "none", out |-> Err("none")]

\* encode, with no output path: the file is rewritten in place
encode(bytes, chunk_type, message) ==
    Only({IF ~parsed.ok THEN NotPng(bytes, parsed)
          ELSE Only({[ret |-> Ok("unit"), wrote |-> TRUE, file |-> Png_as_bytes(png),
                      before |-> parsed, png |-> png, out |-> Ok(chunk)] :
                       png \in {append_chunk(parsed.val, chunk)}}) :
             parsed \in {Png_try_from(bytes)},
             chunk \in {Chunk_new(chunk_type, message)}})

\* remove with the error of remove_chunk returned (remove_chunk(..)?) where
\* the code prints it: the variant C14 tells from the code
remove_propagates(bytes, chunk_type) ==
    Only({IF ~parsed.ok THEN NotPng(bytes, parsed)
          ELSE Only({IF rm.r.ok
                     THEN [ret |-> Ok("unit"), wrote |-> TRUE,
                           file |-> Png_as_bytes(rm.png),
                           before |-> parsed, png |-> rm.png, out |-> rm.r]
                     ELSE [ret |-> Err(rm.r.err), wrote |-> FALSE, file |-> bytes,
                           before |-> parsed, png |-> rm.png, out |-> rm.r] :
                       rm \in {remove_chunk(parsed.val, chunk_type)}}) :
             parsed \in {Png_try_from(bytes)}})

\* remove: the file is rewritten only when a chunk was removed
remove(bytes, chunk_type) ==
    Only({IF ~parsed.ok THEN NotPng(bytes, parsed)
          ELSE Only({IF rm.r.ok
                     THEN [ret |-> Ok("unit"), wrote |-> TRUE,
                           file |-> Png_as_bytes(rm.png),
                           before |-> parsed, png |-> rm.png, out |-> rm.r]
                     ELSE [ret |-> Ok("unit"), wrote |-> FALSE, file |-> bytes,
                           before |-> parsed, png |-> rm.png, out |-> rm.r] :
                       rm \in {remove_chunk(parsed.val, chunk_type)}}) :
             parsed \in {Png_try_from(bytes)}})

\* decode: prints the first chunk of the type, if any
decode(bytes, chunk_type) ==
    Only({IF ~parsed.ok THEN NotPng(bytes, parsed)
          ELSE [ret |-> Ok("unit"), wrote |-> FALSE, file |-> bytes,
                before |-> parsed, png |-> parsed.val,
                out |-> chunk_by_type(parsed.val, chunk_type)] :
             parsed \in {Png_try_from(bytes)}})

\* print: prints every chunk
print(bytes) ==
    Only({IF ~parsed.ok THEN NotPng(bytes, parsed)
          ELSE [ret |-> Ok("unit"), wrote |-> FALSE, file |-> bytes,
                before |-> parsed, png |-> parsed.val, out |-> Ok(parsed.val.chunks)] :
             parsed \in {Png_try_from(bytes)}})

----------------------------------------------------------------------------
(* Inputs of the chunk operations *)

Type(bytes) == [bytes |-> bytes]

RuSt == Type(<<82, 117, 83, 116>>)

\* RuSt and its four neighbours, one property bit (bit 5 of one byte) apart
ChunkTypes == {RuSt,
               Type(<<114, 117, 83, 116>>),     \* ruSt: ancillary
               Type(<<82, 85, 83, 116>>),       \* RUSt: public
               Type(<<82, 117, 115, 116>>),     \* Rust: reserved bit set
               Type(<<82, 117, 83, 84>>)}       \* RuST: unsafe to copy

\* the bytes of the short payloads
DataBytes == {0, 97}

\* the longest short payload
MaxData == 2

ShortData == UNION {[1..n -> DataBytes] : n \in 0..MaxData}

\* payload sizes around 2^31 and 2^32
HugeSizes == {Sub(<<32768, 0>>, N(1)), <<32768, 0>>, <<65536, 0>>, <<65536, 1>>}

\* the payloads: every short one, and vec![0; n] and [97, 0, ..., 0] of the
\* huge sizes
Payloads == {Vec(s) : s \in ShortData}
            \cup {Zeros(n) : n \in HugeSizes}
            \cup {Concat(Vec(<<97>>), Zeros(Sub(n, N(1)))) : n \in HugeSizes}

\* the (type, data) pairs: every payload under RuSt, every type with two payloads
NewInputs == {<<RuSt, d>> : d \in Payloads}
             \cup {<<t, d>> : t \in ChunkTypes, d \in {Vec(<<>>), Vec(<<97>>)}}

----------------------------------------------------------------------------
(* Edits of a serialized chunk: the buffers a caller can hand to try_from   *)

\* v with the bytes of the sequence s written at index from
Overwrite(v, from, s) ==
    Only({Concat(Concat(Slice(x, N(0), from), Vec(s)),
                 Slice(x, after, Sub(x.len, after))) :
             x \in {v}, after \in {Add(from, N(Len(s)))}})

\* the u32 with only bit k set
BitU32(k) == IF k < 16 THEN <<0, 2 ^ k>> ELSE <<2 ^ (k - 16), 0>>

\* v with bit k of its last four bytes, read as a big-endian u32, flipped
FlipCrcBit(v, k) ==
    Only({Overwrite(x, Sub(x.len, N(4)),
                    to_be_bytes(Xor(from_be_bytes(Bytes(Slice(x, Sub(x.len, N(4)), N(4)))),
                                    BitU32(k)))) : x \in {v}})

\* length fields written over the first four bytes
LengthFields == {N(0), N(1), Sub(<<32768, 0>>, N(1)), <<32768, 0>>, <<65535, 65535>>}

\* type bytes written over one byte of the type field: a digit, a letter
TypeEdits == {<<i, b>> : i \in 1..4, b \in {49}} \cup {<<3, 115>>, <<3, 83>>}

\* bytes that follow a chunk in a longer buffer: one byte, and a whole IEND
\* chunk
Trailing == {<<0>>, <<97>>, <<0, 0, 0, 0, 73, 69, 78, 68, 174, 66, 96, 130>>}

\* where a buffer of the given length is cut
Cuts(len) == {n \in {N(0), N(3), N(4), N(7), N(8), N(9), N(11)}
                     \cup (IF Le(N(5), len)
                           THEN {Sub(len, N(1)), Sub(len, N(4)), Sub(len, N(5))}
                           ELSE {}) : Lt(n, len)}

----------------------------------------------------------------------------
(* Chunk operations.  ck.op is the last step; ck.edits names the edits made *)
(* to the buffer since as_bytes.                                            *)

CkInit ==
    \E in \in NewInputs :
        ck = [op |-> "input", t |-> in[1], d |-> in[2], orig |-> "none",
              buf |-> Empty, edits |-> <<>>, r |-> Err("none")]

CkIdle == ck = [op |-> "idle"]

ckOther == <<ty, file, file0, last, nops>>

\* Chunk::new(t, d)
CkNew ==
    /\ ck.op = "input"
    /\ ck' = [ck EXCEPT !.op = "new", !.orig = Chunk_new(ck.t, ck.d)]
    /\ UNCHANGED ckOther

\* orig.as_bytes()
CkAsBytes ==
    /\ ck.op = "new"
    /\ ck' = [ck EXCEPT !.op = "as_bytes", !.buf = as_bytes(ck.orig)]
    /\ UNCHANGED ckOther

Edited(kind) == \E i \in 1..Len(ck.edits) : ck.edits[i][1] = kind

CanEdit(kinds) == /\ ck.op \in {"as_bytes", "edit"}
                  /\ ~Edited("extend")
                  /\ \A k \in kinds : ~Edited(k)

\* another length field
CkSetLength ==
    /\ CanEdit({"length", "type", "crc", "cut"})
    /\ \E l \in LengthFields :
          ck' = [ck EXCEPT !.op = "edit",
                           !.buf = Overwrite(ck.buf, N(0), to_be_bytes(l)),
                           !.edits = Append(ck.edits, <<"length", l>>)]
    /\ UNCHANGED ckOther

\* another byte in the type field
CkSetTypeByte ==
    /\ CanEdit({"type", "crc", "cut"})
    /\ \E e \in TypeEdits :
          ck' = [ck EXCEPT !.op = "edit",
                           !.buf = Overwrite(ck.buf, N(3 + e[1]), <<e[2]>>),
                           !.edits = Append(ck.edits, <<"type", e>>)]
    /\ UNCHANGED ckOther

\* one bit of the crc field flipped
CkFlipCrcBit ==
    /\ CanEdit({"crc", "cut"})
    /\ \E k \in 0..31 :
          ck' = [ck EXCEPT !.op = "edit",
                           !.buf = FlipCrcBit(ck.buf, k),
                           !.edits = Append(ck.edits, <<"crc", k>>)]
    /\ UNCHANGED ckOther

\* the buffer cut short
CkTruncate ==
    /\ CanEdit({"crc", "cut"})
    /\ \E n \in Cuts(ck.buf.len) :
          ck' = [ck EXCEPT !.op = "edit",
                           !.buf = Slice(ck.buf, N(0), n),
                           !.edits = Append(ck.edits, <<"cut", n>>)]
    /\ UNCHANGED ckOther

\* bytes put after the serialization, as the chunks after it in a file are
CkExtend ==
    /\ ck.op = "as_bytes"
    /\ \E x \in Trailing :
          ck' = [ck EXCEPT !.op = "edit",
                           !.buf = Concat(ck.buf, Vec(x)),
                           !.edits = Append(ck.edits, <<"extend", x>>)]
    /\ UNCHANGED ckOther

\* Chunk::try_from(buf)
CkTryFrom ==
    /\ ck.op \in {"as_bytes", "edit"}
    /\ ck' = [ck EXCEPT !.op = "try_from", !.r = Chunk_try_from(ck.buf)]
    /\ UNCHANGED ckOther

----------------------------------------------------------------------------
(* Chunk type operations *)

tyOther == <<ck, file, file0, last, nops>>

\* ChunkType::try_from(bytes)
TyTryFrom ==
    /\ ty.op = "bytes"
    /\ ty' = [ty EXCEPT !.op = "try_from", !.r = ChunkType_try_from(ty.input)]
    /\ UNCHANGED tyOther

\* ChunkType::from_str(str)
TyFromStr ==
    /\ ty.op = "str"
    /\ ty' = [ty EXCEPT !.op = "from_str", !.r = from_str(ty.input)]
    /\ UNCHANGED tyOther

\* the predicates, on the type code just constructed
TyPredicates ==
    /\ ty.op \in {"try_from", "from_str"}
    /\ ty.r.ok
    /\ ty' = [ty EXCEPT !.op = "predicates", !.flags = Predicates(ty.r.val)]
    /\ UNCHANGED tyOther

----------------------------------------------------------------------------
(* Files and command lines *)

IHDR == Type(<<73, 72, 68, 82>>)

ruSt == Type(<<114, 117, 83, 116>>)

C_IHDR == Chunk_new(IHDR, Vec(<<1>>))

C_IEND == Chunk_new(IEND, Vec(<<>>))

C_a == Chunk_new(ruSt, Vec(<<97>>))

C_b == Chunk_new(ruSt, Vec(<<98>>))

\* the chunk sequences of the files a first command finds: with the terminal
\* marker last, without one, and with it elsewhere
InitChunks == {<<>>,
               <<C_IHDR, C_IEND>>,
               <<C_IHDR, C_a, C_IEND>>,
               <<C_IHDR, C_a, C_b, C_IEND>>,
               <<C_IHDR, C_b, C_a>>,
               <<C_IEND, C_IHDR>>,
               <<C_IHDR, C_IEND, C_a>>}

GoodFile == Png_as_bytes([chunks |-> <<C_IHDR, C_a, C_IEND>>])

\* files that are no PNG: empty, a wrong signature, a cut chunk, a wrong crc
BadFiles == {Empty,
             Overwrite(GoodFile, N(1), <<81>>),
             Slice(GoodFile, N(0), Sub(GoodFile.len, N(1))),
             FlipCrcBit(GoodFile, 0)}

\* a file given byte by byte: the signature, an IHDR chunk of the one data
\* byte 01 (crc 0x457897AB) and the IEND chunk (crc 0xAE426082)
LiteralFile == Vec(<<137, 80, 78, 71, 13, 10, 26, 10,
                     0, 0, 0, 1, 73, 72, 68, 82, 1, 69, 120, 151, 171,
                     0, 0, 0, 0, 73, 69, 78, 68, 174, 66, 96, 130>>)

InitFiles == {Png_as_bytes([chunks |-> cs]) : cs \in InitChunks} \cup BadFiles
             \cup {LiteralFile}

\* the chunk types and messages of the command lines
ArgTypes == {ruSt, IEND, IHDR}

Messages == {<<98>>}

\* the number of commands run
MaxOps == 3

CmdInit == /\ file \in InitFiles
           /\ file0 = file
           /\ last = [cmd |-> "none"]
           /\ nops = 0

cmdOther == <<ty, ck>>

Ran(cmd, t, res) ==
    /\ file' = res.file
    /\ last' = [cmd |-> cmd, chunk_type |-> t, ret |-> res.ret, wrote |-> res.wrote,
                before |-> res.before, png |-> res.png, out |-> res.out]
    /\ nops' = nops + 1
    /\ UNCHANGED <<file0, ty, ck>>

\* pngme encode <file> <chunk_type> <message>
Encode ==
    /\ nops < MaxOps
    /\ \E t \in ArgTypes, m \in Messages :
          \E res \in {encode(file, t, Vec(m))} : Ran("encode", t, res)

\* pngme remove <file> <chunk_type>
Remove ==
    /\ nops < MaxOps
    /\ \E t \in ArgTypes : \E res \in {remove(file, t)} : Ran("remove", t, res)

\* pngme decode <file> <chunk_type>
Decode ==
    /\ nops < MaxOps
    /\ \E t \in ArgTypes : \E res \in {decode(file, t)} : Ran("decode", t, res)

\* pngme print <file>
Print_ ==
    /\ nops < MaxOps
    /\ \E res \in {print(file)} : Ran("print", IEND, res)

----------------------------------------------------------------------------
(* Specifications *)

CmdIdle == file = Empty /\ file0 = Empty /\ last = [cmd |-> "idle"] /\ nops = 0

Init == TyIdle /\ CkIdle /\ CmdInit

Next == Encode \/ Remove \/ Decode \/ Print_

\* the commands, on a file
Spec == Init /\ [][Next]_vars

TypeInit == TyInit /\ CkIdle /\ CmdIdle

TypeNext == TyTryFrom \/ TyFromStr \/ TyPredicates

\* chunk types alone
SpecType == TypeInit /\ [][TypeNext]_vars

ChunkInit == TyIdle /\ CkInit /\ CmdIdle

ChunkNext == \/ CkNew \/ CkAsBytes \/ CkSetLength \/ CkSetTypeByte
             \/ CkFlipCrcBit \/ CkTruncate \/ CkExtend \/ CkTryFrom

\* chunks alone
SpecChunk == ChunkInit /\ [][ChunkNext]_vars

----------------------------------------------------------------------------
(* The fields of a buffer handed to Chunk::try_from, read as the layout      *)
(* length(4) type(4) data(length) crc(4) places them                        *)

\* the declared length: the first four bytes, big-endian
Declared(buf) == from_be_bytes(Bytes(Slice(buf, N(0), N(4))))

\* the four bytes of the type field
TypeField(buf) == Bytes(Slice(buf, N(4), N(4)))

\* A-Z or a-z
Letter(b) == b \in (65..90) \cup (97..122)

\* the buffer holds all four fields of a chunk whose length is at most
\* 2^31 - 1 and whose type code is four letters
WellFramed(buf) ==
    /\ Le(N(12), buf.len)
    /\ Lt(Declared(buf), <<32768, 0>>)
    /\ \A i \in 1..4 : Letter(TypeField(buf)[i])
    /\ Le(Add(N(12), Declared(buf)), buf.len)

\* the crc field: the four bytes after the payload, big-endian
StoredCrc(buf) == from_be_bytes(Bytes(Slice(buf, Add(N(8), Declared(buf)), N(4))))

\* the CRC-32 of type bytes ++ payload
Recomputed(buf) == checksum_ieee(Slice(buf, N(4), Add(N(4), Declared(buf))))

\* length == data.len() and length <= 2^31 - 1
LengthHolds(c) == c.length = c.chunk_data.len /\ Le(c.length, <<32767, 65535>>)

\* a terminal marker, when present, is the last entry
TerminalLast(chunks) ==
    \A i \in 1..Len(chunks) : chunks[i].chunk_type = IEND => i = Len(chunks)

----------------------------------------------------------------------------
(* Claims *)

\* C1: for every type code t and payload d, parsing Chunk::new(t, d).as_bytes()
\* succeeds and yields a chunk with the type, data, length and crc of the
\* chunk serialized.  (Stated as claimed; Chunk::new(RuSt, vec![0; 1 << 31])
\* does not parse back, see C6.)
C1_RoundTrip ==
    (ck.op = "try_from" /\ ck.edits = <<>>) => (ck.r.ok /\ ck.r.val = ck.orig)

\* C2: parse of a buffer that holds a whole chunk fails with the checksum
\* mismatch, and returns no chunk, whenever the stored crc differs from the
\* CRC-32 recomputed over type bytes ++ payload; one flipped bit in the crc
\* field of the serialization of a chunk makes parse fail so.
C2_ChecksumMismatch ==
    ck.op = "try_from" =>
        /\ (WellFramed(ck.buf) /\ StoredCrc(ck.buf) # Recomputed(ck.buf))
              => ck.r = Err("ChecksumMismatch")
        /\ (Lt(ck.d.len, <<32768, 0>>) /\ Len(ck.edits) = 1 /\ ck.edits[1][1] = "crc")
              => ck.r = Err("ChecksumMismatch")

\* the top bit of the crc field of a serialized chunk was flipped, and parse
\* reported the mismatch
C2_Witness ==
    /\ ck.op = "try_from"
    /\ ck.edits = <<<<"crc", 31>>>>
    /\ ck.d = Vec(<<97, 0>>)
    /\ ck.r = Err("ChecksumMismatch")

\* C3: parse of a buffer whose first four bytes declare a length of 2^31 or
\* more fails with LengthTooLong whatever follows them (nothing, another type
\* field, a cut payload); a declared length of 2^31 - 1 or less never fails so.
C3_LengthTooLong ==
    (ck.op = "try_from" /\ Le(N(4), ck.buf.len)) =>
        IF Le(<<32768, 0>>, Declared(ck.buf))
        THEN ck.r = Err("LengthTooLong")
        ELSE ck.r.err # "LengthTooLong"

\* a buffer of only the four bytes of the length 2^31 was refused for its length
C3_Witness ==
    /\ ck.op = "try_from"
    /\ ck.buf.len = N(4)
    /\ Declared(ck.buf) = <<32768, 0>>
    /\ ck.r = Err("LengthTooLong")

\* C4: try_from([u8; 4]) succeeds iff each byte is in A-Z or a-z; from_str(s)
\* succeeds iff s is 4 bytes long and all are letters; on success the type
\* code holds exactly the bytes given, so from_str(s) is try_from of the
\* bytes of s.
C4_Construction ==
    /\ ty.op = "try_from" =>
          /\ ty.r.ok <=> \A i \in 1..4 : Letter(ty.input[i])
          /\ ty.r.ok => ty.r.val = [bytes |-> ty.input]
    /\ ty.op = "from_str" =>
          /\ ty.r.ok <=> (Len(ty.input) = 4 /\ \A i \in 1..4 : Letter(ty.input[i]))
          /\ ty.r.ok => (ty.r.val = [bytes |-> ty.input]
                         /\ ty.r = ChunkType_try_from(ty.input))

\* from_str("RuSt") gave the type code of those bytes
C4_Witness ==
    /\ ty.op = "from_str"
    /\ ty.input = <<82, 117, 83, 116>>
    /\ ty.r = Ok([bytes |-> <<82, 117, 83, 116>>])

\* C5: is_critical iff bit 5 of b0 is 0, is_public iff bit 5 of b1 is 0,
\* is_reserved_bit_valid iff bit 5 of b2 is 0, is_safe_to_copy iff bit 5 of b3
\* is 1, and is_valid is is_reserved_bit_valid.
C5_Predicates ==
    ty.op = "predicates" =>
        /\ ty.flags.is_critical           = ((ty.r.val.bytes[1] \div 32) % 2 = 0)
        /\ ty.flags.is_public             = ((ty.r.val.bytes[2] \div 32) % 2 = 0)
        /\ ty.flags.is_reserved_bit_valid = ((ty.r.val.bytes[3] \div 32) % 2 = 0)
        /\ ty.flags.is_safe_to_copy       = ((ty.r.val.bytes[4] \div 32) % 2 = 1)
        /\ ty.flags.is_valid              = ty.flags.is_reserved_bit_valid

\* the predicates of "RuSt": critical, private, reserved bit valid, safe to copy
C5_Witness ==
    /\ ty.op = "predicates"
    /\ ty.r.val.bytes = <<82, 117, 83, 116>>
    /\ ty.flags = [is_valid |-> TRUE, is_critical |-> TRUE, is_public |-> FALSE,
                   is_reserved_bit_valid |-> TRUE, is_safe_to_copy |-> TRUE]

\* C6: every Chunk, built by Chunk::new or produced by parse, has
\* length == data.len() and length <= 2^31 - 1, for payloads of every size.
\* (Stated as claimed; Chunk::new keeps the low 32 bits of data.len() and
\* checks nothing.)
C6_LengthInvariant ==
    /\ ck.op \in {"new", "as_bytes", "edit", "try_from"} => LengthHolds(ck.orig)
    /\ (ck.op = "try_from" /\ ck.r.ok) => LengthHolds(ck.r.val)

\* C7: after any append_chunk or remove_chunk, with any type code, on a
\* container in which a terminal marker, when present, is the last entry, a
\* terminal marker, when present, is still the last entry.  (Stated as
\* claimed; appending a chunk of the marker's own type puts it before the
\* marker already there.)
C7_TerminalLast ==
    (/\ last.cmd \in {"encode", "remove"}
     /\ last.ret.ok
     /\ TerminalLast(last.before.val.chunks)) => TerminalLast(last.png.chunks)

\* C8: append_chunk always succeeds and lengthens the sequence by one: the
\* new chunk is immediately before the terminal marker if there is one, and
\* the last entry otherwise; the chunks already there keep their order and
\* content.  The file written is the serialization of that sequence.
C8_Append ==
    (last.cmd = "encode" /\ last.before.ok) =>
        LET old == last.before.val.chunks
            new == last.png.chunks
            at  == IF \E i \in 1..Len(old) : old[i].chunk_type = IEND
                   THEN CHOOSE i \in 1..Len(old) :
                            /\ old[i].chunk_type = IEND
                            /\ \A j \in 1..(i - 1) : old[j].chunk_type # IEND
                   ELSE Len(old) + 1
        IN /\ last.ret.ok /\ last.wrote
           /\ Len(new) = Len(old) + 1
           /\ new[at] = last.out.val
           /\ \A i \in 1..Len(old) : old[i] = new[IF i < at THEN i ELSE i + 1]
           /\ at <= Len(old) => new[at + 1].chunk_type = IEND
           /\ file = Png_as_bytes(last.png)

\* a ruSt chunk was appended to IHDR ruSt IEND and sits third of four, before
\* the marker
C8_Witness ==
    /\ last.cmd = "encode"
    /\ last.ret.ok
    /\ last.chunk_type = ruSt
    /\ Len(last.png.chunks) = 4
    /\ last.png.chunks[3] = last.out.val
    /\ last.png.chunks[4].chunk_type = IEND
    /\ last.png.chunks[2].chunk_type = ruSt

\* C9: remove_chunk(type) on a container with a chunk of the type removes the
\* first such chunk only, returns it, and leaves the others in their order;
\* on a container with none it returns ChunkNotFound and leaves the sequence,
\* and the file, as they were.
C9_Remove ==
    (last.cmd = "remove" /\ last.before.ok) =>
        LET old == last.before.val.chunks
            new == last.png.chunks
            has == \E i \in 1..Len(old) : old[i].chunk_type = last.chunk_type
            at  == CHOOSE i \in 1..Len(old) :
                       /\ old[i].chunk_type = last.chunk_type
                       /\ \A j \in 1..(i - 1) : old[j].chunk_type # last.chunk_type
        IN IF has
           THEN /\ last.out = Ok(old[at])
                /\ Len(new) = Len(old) - 1
                /\ \A i \in 1..Len(new) : new[i] = old[IF i < at THEN i ELSE i + 1]
                /\ last.wrote /\ file = Png_as_bytes(last.png)
           ELSE /\ last.out = Err("ChunkNotFound")
                /\ new = old
                /\ ~last.wrote /\ Png_try_from(file) = last.before

\* of two ruSt chunks the first, "a", was removed and the second, "b", stays
C9_Witness ==
    /\ last.cmd = "remove"
    /\ last.before.ok
    /\ last.before.val.chunks = <<C_IHDR, C_a, C_b, C_IEND>>
    /\ last.out = Ok(C_a)
    /\ last.png.chunks = <<C_IHDR, C_b, C_IEND>>

\* C10, as claimed: parse rejects a chunk whose type code has bit 5 of its
\* third byte set (reserved bit invalid, as in "Rust") and which is otherwise
\* well formed, with a correct crc.
C10_ReservedBitEnforced ==
    (/\ ck.op = "try_from"
     /\ WellFramed(ck.buf)
     /\ StoredCrc(ck.buf) = Recomputed(ck.buf)
     /\ (TypeField(ck.buf)[3] \div 32) % 2 = 1) => ~ck.r.ok

\* C10, amended: parse enforces the letters of the type code and nothing else
\* of it: a type byte that is no letter is refused, and a buffer that holds a
\* whole chunk with a four-letter type code and the crc of its type bytes ++
\* payload is accepted with that type code, whatever bit 5 of any of the four
\* bytes is.
C10_OnlyLettersEnforced ==
    ck.op = "try_from" =>
        /\ (WellFramed(ck.buf) /\ StoredCrc(ck.buf) = Recomputed(ck.buf))
              => (ck.r.ok /\ ck.r.val.chunk_type = [bytes |-> TypeField(ck.buf)])
        /\ (/\ Le(N(8), ck.buf.len)
            /\ Lt(Declared(ck.buf), <<32768, 0>>)
            /\ \E i \in 1..4 : ~Letter(TypeField(ck.buf)[i]))
              => ck.r = Err("invalid bytes")

\* the serialization of a chunk of type "Rust" was parsed and accepted
C10_Witness ==
    /\ ck.op = "try_from"
    /\ ck.edits = <<>>
    /\ ck.t = Type(<<82, 117, 115, 116>>)
    /\ ck.r.ok
    /\ ck.r.val = ck.orig

----------------------------------------------------------------------------
(* Claims on sequences of commands *)

\* the chunks of a sequence whose type code is critical, in their order
CriticalChunks(chunks) == SelectSeq(chunks, LAMBDA c : is_critical(c.chunk_type))

\* the entries of a from the i-th on appear among those of b from the j-th
\* on, in the same relative order
RECURSIVE Embeds(_, _, _, _)
Embeds(a, i, b, j) ==
    IF i > Len(a) THEN TRUE
    ELSE IF j > Len(b) THEN FALSE
    ELSE IF a[i] = b[j] THEN Embeds(a, i + 1, b, j + 1)
    ELSE Embeds(a, i, b, j + 1)

\* C11: after any sequence of encode and remove commands, with any type
\* code, every critical chunk of the original file is still in the file, with
\* the same data and in the same relative order.  (Stated as claimed; remove
\* takes a critical type code as it takes any other.)
C11_CriticalUntouched ==
    Png_try_from(file0).ok =>
        /\ Png_try_from(file).ok
        /\ Embeds(CriticalChunks(Png_try_from(file0).val.chunks), 1,
                  Png_try_from(file).val.chunks, 1)

\* C12: for every buffer the container parse accepts, the serialization of
\* the container parsed is that buffer byte for byte, and parsing the
\* serialization again gives the same container: the same chunks, with their
\* types and data, in the same order.
C12_ParseInverse ==
    \A parsed \in {Png_try_from(file)} :
        parsed.ok =>
            /\ Png_as_bytes(parsed.val) = file
            /\ Png_try_from(Png_as_bytes(parsed.val)) = parsed

\* print parsed the file given byte by byte, found IHDR and IEND, and the
\* serialization of the two is that file
C12_Witness ==
    /\ last.cmd = "print"
    /\ last.ret.ok
    /\ file = LiteralFile
    /\ Len(last.png.chunks) = 2
    /\ last.png.chunks[1].chunk_data = Vec(<<1>>)
    /\ Png_as_bytes(last.png) = LiteralFile

----------------------------------------------------------------------------
(* Claims on the steps of Chunk::try_from *)

\* the first step of parse that fails on buf, in the order: length field
\* there, length in range, type field there, type letters, payload there,
\* crc there, crc matching; "none" when every step passes
FirstFailure(buf) ==
    IF Lt(buf.len, N(4)) THEN "UnexpectedEof"
    ELSE IF Le(<<32768, 0>>, Declared(buf)) THEN "LengthTooLong"
    ELSE IF Lt(buf.len, N(8)) THEN "UnexpectedEof"
    ELSE IF \E i \in 1..4 : ~Letter(TypeField(buf)[i]) THEN "invalid bytes"
    ELSE IF Lt(buf.len, Add(N(8), Declared(buf))) THEN "UnexpectedEof"
    ELSE IF Lt(buf.len, Add(N(12), Declared(buf))) THEN "UnexpectedEof"
    ELSE IF StoredCrc(buf) # Recomputed(buf) THEN "ChecksumMismatch"
    ELSE "none"

\* C13: parse reports the first failing step in the order length-range,
\* type-letters, payload-available, crc-available, crc-match, and returns no
\* chunk on a failure; a buffer with a length field in range and four type
\* letters but fewer than 12 + length bytes fails with UnexpectedEof, never
\* with ChecksumMismatch; the payload of the chunk returned is the `length`
\* bytes after the type field, whatever else the buffer holds.
C13_FirstFailure ==
    ck.op = "try_from" =>
        /\ ck.r.err = FirstFailure(ck.buf)
        /\ ck.r.ok <=> FirstFailure(ck.buf) = "none"
        /\ ~ck.r.ok => ck.r.val = "none"
        /\ ck.r.ok =>
              /\ ck.r.val.length = Declared(ck.buf)
              /\ ck.r.val.chunk_data = Slice(ck.buf, N(8), Declared(ck.buf))
              /\ ck.r.val.chunk_data.len = ck.r.val.length

\* the serialization of a chunk of two data bytes, cut one byte short: 13
\* bytes where 14 are needed, refused for the missing byte
C13_Witness ==
    /\ ck.op = "try_from"
    /\ ck.edits = <<<<"cut", N(13)>>>>
    /\ Declared(ck.buf) = N(2)
    /\ \A i \in 1..4 : Letter(TypeField(ck.buf)[i])
    /\ ck.r = Err("UnexpectedEof")

----------------------------------------------------------------------------
(* Claims on the remove command *)

\* C14: a remove command on a file that is no container returns the error of
\* the parse and leaves the file as it was; on a container with no chunk of
\* the type it writes nothing, leaves the file as it was, reports
\* ChunkNotFound and returns Ok; only on a container with a chunk of the type
\* does it write the file, and what it writes is the container after the
\* removal.
C14_RemoveWrites ==
    [][last'.cmd = "remove" =>
          \A parsed \in {Png_try_from(file)} :
             /\ last'.before = parsed
             /\ IF ~parsed.ok
                THEN /\ last'.ret = Err(parsed.err)
                     /\ ~last'.wrote
                     /\ file' = file
                ELSE IF \A i \in 1..Len(parsed.val.chunks) :
                            parsed.val.chunks[i].chunk_type # last'.chunk_type
                THEN /\ last'.ret = Ok("unit")
                     /\ last'.out = Err("ChunkNotFound")
                     /\ ~last'.wrote
                     /\ file' = file
                ELSE /\ last'.ret = Ok("unit")
                     /\ last'.out.ok
                     /\ last'.wrote
                     /\ file' = Png_as_bytes(last'.png)
                     /\ file' # file]_vars

\* remove of a type the container has no chunk of: nothing written, the
\* error reported, Ok returned
C14_Witness ==
    /\ last.cmd = "remove"
    /\ last.before.ok
    /\ last.chunk_type = ruSt
    /\ last.out = Err("ChunkNotFound")
    /\ ~last.wrote
    /\ last.ret = Ok("unit")
    /\ Png_try_from(file) = last.before

----------------------------------------------------------------------------
(* Claims on what Chunk::try_from consumes *)

\* C15: parse consumes the first 12 + length bytes of its input and ignores
\* what follows: for a serialized chunk s that parses and bytes x, parse of
\* s ++ x succeeds with the chunk that parse of s gives, and the as_bytes()
\* of a chunk parsed is the first 12 + length bytes of the input, which for s
\* and for s ++ x is s.
C15_ConsumesExactly ==
    /\ (ck.op = "try_from" /\ ck.r.ok) =>
          /\ Le(Add(N(12), ck.r.val.length), ck.buf.len)
          /\ as_bytes(ck.r.val) = Slice(ck.buf, N(0), Add(N(12), ck.r.val.length))
    /\ (ck.op = "try_from" /\ Len(ck.edits) = 1 /\ ck.edits[1][1] = "extend") =>
          \A s \in {as_bytes(ck.orig)} : \A parsed \in {Chunk_try_from(s)} :
             /\ ck.buf = Concat(s, Vec(ck.edits[1][2]))
             /\ parsed.ok =>
                   /\ ck.r = parsed
                   /\ as_bytes(ck.r.val) = s
                   /\ s.len = Add(N(12), ck.r.val.length)

\* the serialization of a chunk of two data bytes, followed by the twelve
\* bytes of an IEND chunk, parsed to the chunk serialized
C15_Witness ==
    /\ ck.op = "try_from"
    /\ ck.edits = <<<<"extend", <<0, 0, 0, 0, 73, 69, 78, 68, 174, 66, 96, 130>>>>>>
    /\ ck.d = Vec(<<97, 0>>)
    /\ ck.buf.len = N(26)
    /\ ck.r = Ok(ck.orig)
====
